---- MODULE Spec2Model ----
(***************************************************************************)
(* BarkLog / PetCare: the relational store declared in shared/schema.ts,    *)
(* the repository DatabaseStorage of server/storage.ts, the HTTP handlers   *)
(* of server/routes.ts and the status derivations of the client pages.      *)
(*                                                                          *)
(* The store is one record `db` holding the six tables (sets of rows) and   *)
(* the identity sequences.  Each SQL statement is an operator from a store  *)
(* to a statement result; each repository method composes its statements in *)
(* program order (every statement commits on its own: storage.ts opens no   *)
(* transaction); each HTTP handler is one action.                           *)
(***************************************************************************)
EXTENDS Integers, Sequences, FiniteSets, TLC

VARIABLES
    db,     \* the relational store: tables and identity sequences
    req,    \* the request (or repository call) served last
    res,    \* the response to it: status, error, body
    now,    \* the wall clock of the browser, in ticks
    view,   \* what the client page derived last
    calls   \* the repository calls in progress, one per caller

vars == <<db, req, res, now, view, calls>>

----------------------------------------------------------------------------
(* Bounds of the model *)

MaxPets == 2            \* pet rows ever inserted
MaxWeights == 2         \* weight entries ever inserted
MaxEvents == 2          \* event rows ever inserted
MaxPetEvents == 2       \* join rows ever inserted
MaxVaccinations == 1    \* vaccination rows ever inserted
MaxMedications == 1     \* medication rows ever inserted
MaxPetIds == 2          \* length of the petIds list of POST /api/events
MaxRows == 4            \* entity rows ever inserted, all entity tables together
TicksPerDay == 2        \* resolution of the wall clock: instants per day
MaxClockTicks == 3      \* how far the wall clock advances
MaxShownEvents == 2     \* events in the list a page renders
MaxCallers == 2         \* repository calls in progress at once
MaxSeedPets == 6        \* pet rows ever inserted by seedDatabase

----------------------------------------------------------------------------
(* SQL NULL and nullable columns: a nullable column holds NULL or <<v>> *)

NULL == <<>>
Some(v) == <<v>>
IsNull(x) == x = NULL
Val(x) == x[1]

Range(s) == {s[i] : i \in DOMAIN s}

Ids(rows) == {r.id : r \in rows}

\* a JavaScript object literal / JSON body: a function from field names
Has(obj, f) == f \in DOMAIN obj

\* column DEFAULT: the given value, else the default
OrDefault(obj, f, dflt) == IF Has(obj, f) THEN obj[f] ELSE dflt

----------------------------------------------------------------------------
(* Calendar dates ('YYYY-MM-DD' date columns) are <<year, month, day>> *)

DateLess(a, b) ==
    \/ a[1] < b[1]
    \/ a[1] = b[1] /\ a[2] < b[2]
    \/ a[1] = b[1] /\ a[2] = b[2] /\ a[3] < b[3]

DateLeq(a, b) == a = b \/ DateLess(a, b)

\* days of the months of a common year, and the days before each month
DaysInMonth == <<31, 28, 31, 30, 31, 30, 31, 31, 30, 31, 30, 31>>
DaysBeforeMonth == <<0, 31, 59, 90, 120, 151, 181, 212, 243, 273, 304, 334>>

\* the day count of a date from 2025-01-01 (the years 2025 to 2027 are common years)
DayNumber(date) == (date[1] - 2025) * 365 + DaysBeforeMonth[date[2]] + date[3] - 1

\* an instant is a count of clock ticks from 2025-01-01T00:00 local time
\* date-fns parseISO of a 'YYYY-MM-DD' text: the local midnight that starts the day
ParseISO(date) == DayNumber(date) * TicksPerDay

\* integer division that truncates toward zero (Math.trunc)
TruncDiv(a, b) == IF a >= 0 THEN a \div b ELSE -((-a) \div b)

\* date-fns differenceInDays(left, right): the number of full days between the
\* two instants, truncated toward zero
DifferenceInDays(left, right) == TruncDiv(left - right, TicksPerDay)

Abs(n) == IF n < 0 THEN -n ELSE n

----------------------------------------------------------------------------
(* The store *)

EmptyDb ==
    [ pets |-> {}, weightEntries |-> {}, events |-> {}, petEvents |-> {},
      vaccinations |-> {}, medications |-> {},
      seq |-> [ pets |-> 1, weightEntries |-> 1, events |-> 1, petEvents |-> 1,
                vaccinations |-> 1, medications |-> 1 ] ]

\* the rows of the store, without the identity sequences
Rows(d) == <<d.pets, d.weightEntries, d.events, d.petEvents, d.vaccinations, d.medications>>

\* a statement's outcome: the store after it, the rows it returns, or the
\* error it throws (the store is then as before the statement)
Ok(d, rows) == [ok |-> TRUE, db |-> d, rows |-> rows, error |-> ""]
Err(d, msg) == [ok |-> FALSE, db |-> d, rows |-> <<>>, error |-> msg]

FkViolation == "violates foreign key constraint"

----------------------------------------------------------------------------
(* Referential actions of the foreign keys (shared/schema.ts) *)

\* the foreign key without its referential action: dependents stay behind
CascadeByPet_NoAction(rows, id) == rows

\* petId ... references(() => pets.id, { onDelete: "cascade" })
CascadeByPet(rows, id) == {r \in rows : r.petId # id}

\* eventId ... references(() => events.id, { onDelete: "cascade" })
CascadeByEvent(rows, id) == {r \in rows : r.eventId # id}

\* the source-event reference declared with onDelete "cascade"
SetNullSourceEvent_Cascade(rows, id) == {r \in rows : r.sourceEventId # Some(id)}

\* sourceEventId ... references(() => events.id, { onDelete: "set null" })
SetNullSourceEvent(rows, id) ==
    { IF r.sourceEventId = Some(id) THEN [r EXCEPT !.sourceEventId = NULL] ELSE r
      : r \in rows }

\* a pet_id column declared without references(): nothing is checked
PetFkHolds_Unchecked(d, petId) == TRUE

\* a foreign key holds when the referenced row exists; a NULL reference holds
PetFkHolds(d, petId) == petId \in Ids(d.pets)
EventFkHolds(d, eventId) == eventId \in Ids(d.events)
SourceEventFkHolds(d, ref) == IsNull(ref) \/ Val(ref) \in Ids(d.events)

----------------------------------------------------------------------------
(* Rows as the tables declare them: identity id, defaults, nullable columns *)

PetRow(id, v) ==
    [ id |-> id, name |-> v.name, breed |-> v.breed,
      species |-> OrDefault(v, "species", "dog"),
      dateOfBirth |-> OrDefault(v, "dateOfBirth", NULL),
      avatarUrl |-> OrDefault(v, "avatarUrl", NULL),
      color |-> OrDefault(v, "color", NULL),
      gender |-> OrDefault(v, "gender", NULL) ]

WeightEntryRow(id, v) ==
    [ id |-> id, petId |-> v.petId, weight |-> v.weight,
      unit |-> OrDefault(v, "unit", "lbs"), recordedAt |-> v.recordedAt ]

EventRow(id, v) ==
    [ id |-> id, title |-> v.title, category |-> v.category,
      eventDate |-> v.eventDate,
      reminderDate |-> OrDefault(v, "reminderDate", NULL) ]

PetEventRow(id, v) == [ id |-> id, petId |-> v.petId, eventId |-> v.eventId ]

VaccinationRow(id, v) ==
    [ id |-> id, petId |-> v.petId, name |-> v.name,
      dateAdministered |-> v.dateAdministered,
      nextDueDate |-> OrDefault(v, "nextDueDate", NULL),
      sourceEventId |-> OrDefault(v, "sourceEventId", NULL) ]

MedicationRow(id, v) ==
    [ id |-> id, petId |-> v.petId, name |-> v.name,
      startDate |-> v.startDate,
      endDate |-> OrDefault(v, "endDate", NULL),
      active |-> OrDefault(v, "active", TRUE),
      sourceEventId |-> OrDefault(v, "sourceEventId", NULL) ]

\* .set(data) with no column to set throws before any statement is sent
NoValuesToSet == "No values to set"

\* UPDATE ... SET data: the columns named in data change, the others stay
UpdateSet(row, data) ==
    [ f \in DOMAIN row |-> IF f \in DOMAIN data THEN data[f] ELSE row[f] ]

----------------------------------------------------------------------------
(* SQL statements.  Each is atomic: it either takes effect as a whole or   *)
(* throws and leaves the store as it was.                                  *)

\* db.insert(pets).values(pet).returning()
InsertPet(d, v) ==
    LET row == PetRow(d.seq.pets, v)
    IN  Ok([d EXCEPT !.pets = @ \cup {row}, !.seq.pets = @ + 1], <<row>>)

\* db.update(pets).set(data).where(eq(pets.id, id)).returning()
UpdatePetWhereId(d, id, data) ==
    LET hit == {p \in d.pets : p.id = id}
        upd(p) == IF p.id = id THEN UpdateSet(p, data) ELSE p
    IN  IF DOMAIN data = {} THEN Err(d, NoValuesToSet)
        ELSE Ok([d EXCEPT !.pets = {upd(p) : p \in @}],
                IF hit = {} THEN <<>> ELSE <<upd(CHOOSE p \in hit : TRUE)>>)

\* db.delete(pets).where(eq(pets.id, id)), with the cascades of its dependents
DeletePetWhereId(d, id) ==
    Ok([d EXCEPT !.pets = {p \in @ : p.id # id},
                 !.weightEntries = CascadeByPet(@, id),
                 !.petEvents = CascadeByPet(@, id),
                 !.vaccinations = CascadeByPet(@, id),
                 !.medications = CascadeByPet(@, id)], <<>>)

\* db.insert(weightEntries).values(entry).returning()
InsertWeightEntry(d, v) ==
    LET row == WeightEntryRow(d.seq.weightEntries, v)
    IN  IF PetFkHolds(d, v.petId)
        THEN Ok([d EXCEPT !.weightEntries = @ \cup {row},
                          !.seq.weightEntries = @ + 1], <<row>>)
        ELSE Err(d, FkViolation)

\* db.insert(events).values(event).returning()
InsertEvent(d, v) ==
    LET row == EventRow(d.seq.events, v)
    IN  Ok([d EXCEPT !.events = @ \cup {row}, !.seq.events = @ + 1], <<row>>)

\* db.insert(petEvents).values([...]): one multi-row INSERT, all rows or none
InsertPetEvents(d, vs) ==
    LET first == d.seq.petEvents
        rows == {PetEventRow(first + i - 1, vs[i]) : i \in DOMAIN vs}
    IN  IF \A i \in DOMAIN vs :
              PetFkHolds(d, vs[i].petId) /\ EventFkHolds(d, vs[i].eventId)
        THEN Ok([d EXCEPT !.petEvents = @ \cup rows,
                          !.seq.petEvents = @ + Len(vs)], <<>>)
        ELSE Err(d, FkViolation)

\* db.delete(petEvents).where(eq(petEvents.eventId, id))
DeletePetEventsWhereEventId(d, id) ==
    Ok([d EXCEPT !.petEvents = {l \in @ : l.eventId # id}], <<>>)

\* db.delete(events).where(eq(events.id, id)), with its referential actions
DeleteEventWhereId(d, id) ==
    Ok([d EXCEPT !.events = {e \in @ : e.id # id},
                 !.petEvents = CascadeByEvent(@, id),
                 !.vaccinations = SetNullSourceEvent(@, id),
                 !.medications = SetNullSourceEvent(@, id)], <<>>)

\* db.insert(vaccinations).values(data).returning()
InsertVaccination(d, v) ==
    LET row == VaccinationRow(d.seq.vaccinations, v)
    IN  IF PetFkHolds(d, row.petId) /\ SourceEventFkHolds(d, row.sourceEventId)
        THEN Ok([d EXCEPT !.vaccinations = @ \cup {row},
                          !.seq.vaccinations = @ + 1], <<row>>)
        ELSE Err(d, FkViolation)

\* db.update(vaccinations).set(data).where(eq(vaccinations.id, id)).returning()
UpdateVaccinationWhereId(d, id, data) ==
    LET hit == {r \in d.vaccinations : r.id = id}
        upd(r) == IF r.id = id THEN UpdateSet(r, data) ELSE r
    IN  IF DOMAIN data = {} THEN Err(d, NoValuesToSet)
        ELSE IF \A r \in hit : /\ PetFkHolds(d, upd(r).petId)
                                /\ SourceEventFkHolds(d, upd(r).sourceEventId)
        THEN Ok([d EXCEPT !.vaccinations = {upd(r) : r \in @}],
                IF hit = {} THEN <<>> ELSE <<upd(CHOOSE r \in hit : TRUE)>>)
        ELSE Err(d, FkViolation)

\* db.delete(vaccinations).where(eq(vaccinations.id, id))
DeleteVaccinationWhereId(d, id) ==
    Ok([d EXCEPT !.vaccinations = {r \in @ : r.id # id}], <<>>)

\* db.insert(medications).values(data).returning()
InsertMedication(d, v) ==
    LET row == MedicationRow(d.seq.medications, v)
    IN  IF PetFkHolds(d, row.petId) /\ SourceEventFkHolds(d, row.sourceEventId)
        THEN Ok([d EXCEPT !.medications = @ \cup {row},
                          !.seq.medications = @ + 1], <<row>>)
        ELSE Err(d, FkViolation)

\* db.update(medications).set(data).where(eq(medications.id, id)).returning()
UpdateMedicationWhereId(d, id, data) ==
    LET hit == {r \in d.medications : r.id = id}
        upd(r) == IF r.id = id THEN UpdateSet(r, data) ELSE r
    IN  IF DOMAIN data = {} THEN Err(d, NoValuesToSet)
        ELSE IF \A r \in hit : /\ PetFkHolds(d, upd(r).petId)
                                /\ SourceEventFkHolds(d, upd(r).sourceEventId)
        THEN Ok([d EXCEPT !.medications = {upd(r) : r \in @}],
                IF hit = {} THEN <<>> ELSE <<upd(CHOOSE r \in hit : TRUE)>>)
        ELSE Err(d, FkViolation)

\* db.delete(medications).where(eq(medications.id, id))
DeleteMedicationWhereId(d, id) ==
    Ok([d EXCEPT !.medications = {r \in @ : r.id # id}], <<>>)

----------------------------------------------------------------------------
(* Queries.  A SELECT returns its rows in an order the ORDER BY clause fixes *)
(* only up to rows with equal keys; without ORDER BY any order can come     *)
(* back.  A query is therefore the SET of the row sequences it may return.  *)

\* every arrangement of the rows of S
Perms(S) ==
    { s \in [1..Cardinality(S) -> S] :
        \A i, j \in 1..Cardinality(S) : i # j => s[i] # s[j] }

\* text comparison of the names the model uses
TextOrder == <<"Buddy", "Luna", "Max">>
TextRank(t) == CHOOSE i \in DOMAIN TextOrder : TextOrder[i] = t
TextLeq(a, b) == TextRank(a) <= TextRank(b)

\* comparison of two values of a column: pets.name is text, the others are dates
KeyLeq(col, a, b) == IF col = "name" THEN TextLeq(a, b) ELSE DateLeq(a, b)

\* the rows in insertion order instead of the order of the column
Asc_ById(col, a, b) == a.id <= b.id

\* asc(column): row a may come before row b
Asc(col, a, b) == KeyLeq(col, a[col], b[col])
\* desc(column): row a may come before row b
Desc(col, a, b) == KeyLeq(col, b[col], a[col])

\* .orderBy(asc(col)) or .orderBy(desc(col)): the arrangements in which each
\* row precedes-or-ties the next
OrderBy(S, col, dir) ==
    { s \in Perms(S) :
        \A i \in 1..(Len(s) - 1) :
            IF dir = "asc" THEN Asc(col, s[i], s[i + 1]) ELSE Desc(col, s[i], s[i + 1]) }

----------------------------------------------------------------------------
(* The repository: DatabaseStorage (server/storage.ts) *)

getPets(d) == OrderBy(d.pets, "name", "asc")

\* the rows of `const [pet] = ...; return pet || undefined`
getPet(d, id) ==
    LET hit == {p \in d.pets : p.id = id}
    IN  IF hit = {} THEN <<>> ELSE <<CHOOSE p \in hit : TRUE>>

createPet(d, pet) == InsertPet(d, pet)

\* an update without its where clause: every pet takes the data
updatePet_NoWhere(d, id, data) ==
    LET s1 == UpdatePetWhereId(d, id, data)
    IN  IF s1.ok THEN Ok([d EXCEPT !.pets = {UpdateSet(p, data) : p \in @}], s1.rows)
        ELSE s1

updatePet(d, id, data) == UpdatePetWhereId(d, id, data)

deletePet(d, id) == DeletePetWhereId(d, id)

getWeightEntries(d, petId) ==
    OrderBy({w \in d.weightEntries : w.petId = petId}, "recordedAt", "asc")

\* weight entries joined with their pet's name, by recorded date ascending
getAllWeightEntries(d) ==
    LET petOf(w) == CHOOSE p \in d.pets : p.id = w.petId
        joined == { [id |-> w.id, petId |-> w.petId, weight |-> w.weight, unit |-> w.unit,
                     recordedAt |-> w.recordedAt, petName |-> petOf(w).name]
                    : w \in {x \in d.weightEntries : x.petId \in Ids(d.pets)} }
    IN  OrderBy(joined, "recordedAt", "asc")

\* a create that replaces the pet's entry of the same recorded date
createWeightEntry_ReplacesSameDay(d, entry) ==
    InsertWeightEntry(
        [d EXCEPT !.weightEntries =
            {w \in @ : ~(w.petId = entry.petId /\ w.recordedAt = entry.recordedAt)}],
        entry)

createWeightEntry(d, entry) == InsertWeightEntry(d, entry)

\* the join of one event's links with pets: one pet per link row, any order
LinkedPets(d, eventId) ==
    LET links == { l \in d.petEvents :
                     l.eventId = eventId /\ l.petId \in Ids(d.pets) }
        petOf(l) == CHOOSE p \in d.pets : p.id = l.petId
    IN  { [i \in DOMAIN s |-> petOf(s[i])] : s \in Perms(links) }

\* { ...event, pets: eventPetLinks.map((l) => l.pet) }
EventWithPets(event, petSeq) ==
    [ id |-> event.id, title |-> event.title, category |-> event.category,
      eventDate |-> event.eventDate, reminderDate |-> event.reminderDate,
      pets |-> petSeq ]

\* the loop of getEvents over the ordered events
RECURSIVE AttachPets(_, _)
AttachPets(d, evs) ==
    IF evs = <<>> THEN {<<>>}
    ELSE { <<EventWithPets(Head(evs), ps)>> \o rest :
             ps \in LinkedPets(d, Head(evs).id), rest \in AttachPets(d, Tail(evs)) }

getEvents(d) ==
    UNION { AttachPets(d, allEvents) : allEvents \in OrderBy(d.events, "eventDate", "desc") }

\* a getEventsByPet whose events carry the given pet only
getEventsByPet_OnlyThatPet(d, petId) ==
    LET eventIds == { l.eventId : l \in {x \in d.petEvents : x.petId = petId} }
        only(e) == [e EXCEPT !.pets = SelectSeq(@, LAMBDA p : p.id = petId)]
        kept(allEvents) == SelectSeq(allEvents, LAMBDA e : e.id \in eventIds)
    IN  IF eventIds = {} THEN {<<>>}
        ELSE { [i \in DOMAIN kept(allEvents) |-> only(kept(allEvents)[i])] :
                 allEvents \in getEvents(d) }

getEventsByPet(d, petId) ==
    LET eventIds == { l.eventId : l \in {x \in d.petEvents : x.petId = petId} }
    IN  IF eventIds = {} THEN {<<>>}
        ELSE { SelectSeq(allEvents, LAMBDA e : e.id \in eventIds) :
                 allEvents \in getEvents(d) }

\* a createEvent that links only the first listed pet
createEvent_FirstPetOnly(d, event, petIds) ==
    LET s1 == InsertEvent(d, event)
        created == s1.rows[1]
        s2 == InsertPetEvents(s1.db, <<[petId |-> petIds[1], eventId |-> created.id]>>)
    IN  IF Len(petIds) > 0
        THEN IF s2.ok THEN Ok(s2.db, <<created>>) ELSE Err(s2.db, s2.error)
        ELSE Ok(s1.db, <<created>>)

\* insert the event, then (when petIds is not empty) its join rows; the second
\* statement's error is thrown after the first statement has taken effect
createEvent(d, event, petIds) ==
    LET s1 == InsertEvent(d, event)
        created == s1.rows[1]
        s2 == InsertPetEvents(s1.db,
                  [i \in DOMAIN petIds |-> [petId |-> petIds[i], eventId |-> created.id]])
    IN  IF Len(petIds) > 0
        THEN IF s2.ok THEN Ok(s2.db, <<created>>) ELSE Err(s2.db, s2.error)
        ELSE Ok(s1.db, <<created>>)

\* a deleteEvent that stops after the join rows
deleteEvent_LinksOnly(d, id) == DeletePetEventsWhereEventId(d, id)

\* delete the join rows, then the event row
deleteEvent(d, id) ==
    LET s1 == DeletePetEventsWhereEventId(d, id)
    IN  DeleteEventWhereId(s1.db, id)

getVaccinationsByPet(d, petId) ==
    OrderBy({v \in d.vaccinations : v.petId = petId}, "dateAdministered", "desc")

createVaccination(d, data) == InsertVaccination(d, data)

updateVaccination(d, id, data) == UpdateVaccinationWhereId(d, id, data)

deleteVaccination(d, id) == DeleteVaccinationWhereId(d, id)

getMedicationsByPet(d, petId) ==
    OrderBy({m \in d.medications : m.petId = petId}, "startDate", "desc")

createMedication(d, data) == InsertMedication(d, data)

\* an update that also clears the end date of the medication
updateMedication_ClearsEndDate(d, id, data) ==
    UpdateMedicationWhereId(d, id, [f \in DOMAIN data \cup {"endDate"} |->
                                       IF f = "endDate" THEN NULL ELSE data[f]])

updateMedication(d, id, data) == UpdateMedicationWhereId(d, id, data)

deleteMedication(d, id) == DeleteMedicationWhereId(d, id)

----------------------------------------------------------------------------
(* The HTTP layer (server/routes.ts) *)

\* a path parameter is the sequence of its characters
DigitChars == <<"0", "1", "2", "3", "4", "5", "6", "7", "8", "9">>
IsDigit(c) == \E i \in DOMAIN DigitChars : DigitChars[i] = c
DigitVal(c) == (CHOOSE i \in DOMAIN DigitChars : DigitChars[i] = c) - 1

\* JavaScript's NaN, the result of parseInt on text that starts with no digit
NaN == -1
IsNaN(n) == n = NaN

\* the value of the leading run of digits, given the value read so far
RECURSIVE LeadingDigits(_, _)
LeadingDigits(s, acc) ==
    IF s # <<>> /\ IsDigit(Head(s))
    THEN LeadingDigits(Tail(s), 10 * acc + DigitVal(Head(s)))
    ELSE acc

\* parseInt(req.params.id)
ParseInt(s) ==
    IF s # <<>> /\ IsDigit(Head(s)) THEN LeadingDigits(s, 0) ELSE NaN

\* the error body of a ZodError response: the list of field violations
ZodIssues == "ZodError.errors"

\* the closed set of event categories (eventCategoryEnum)
EventCategories == {"vet_visit", "medication", "vaccination", "appointment"}

\* a JSON value that is no text, where a column of text is expected
NotText == "<not a text>"
IsText(v) == v # NotText

\* the keys of insertPetSchema: the columns of pets but id
InsertPetKeys == {"name", "breed", "species", "dateOfBirth", "avatarUrl", "color", "gender"}

\* what schema.parse returns of a valid body: zod drops the keys the schema
\* does not declare
Strip(body, keys) == [f \in DOMAIN body \cap keys |-> body[f]]

\* insertPetSchema.parse: name and breed are required texts
ValidInsertPet(body) ==
    /\ Has(body, "name") /\ Has(body, "breed")
    /\ IsText(body.name) /\ IsText(body.breed)

\* insertPetSchema.partial().parse: every field is optional, a text where given
ValidPartialPet(body) ==
    \A f \in DOMAIN body \cap {"name", "breed", "species"} : IsText(body[f])

\* insertWeightEntrySchema.parse: petId, weight and recordedAt are required
ValidInsertWeightEntry(body) ==
    Has(body, "petId") /\ Has(body, "weight") /\ Has(body, "recordedAt")

\* insertEventSchema.parse: title, category (of the enum) and eventDate are required
ValidInsertEvent(body) ==
    /\ Has(body, "title") /\ Has(body, "category") /\ Has(body, "eventDate")
    /\ body.category \in EventCategories

\* const { petIds, ...eventData } = req.body
EventData(body) == [f \in DOMAIN body \ {"petIds"} |-> body[f]]

\* !petIds || !Array.isArray(petIds) || petIds.length === 0
\* (a JSON value is [type, items]; items is the element list of an array)
NoPetSelected(body) ==
    \/ ~Has(body, "petIds")
    \/ body.petIds.type # "array"
    \/ Len(body.petIds.items) = 0

Request(op, id, body) == [op |-> op, id |-> id, body |-> body]
Response(status, error, body) == [status |-> status, error |-> error, body |-> body]
NoBody == <<>>
NoId == 0

\* entity rows inserted so far (the identity sequences start at 1)
Inserted(d) ==
    (d.seq.pets - 1) + (d.seq.weightEntries - 1) + (d.seq.events - 1)
    + (d.seq.vaccinations - 1) + (d.seq.medications - 1)

\* the model's bounds leave room for one more row of an entity table whose
\* identity sequence stands at next and is capped at max
Room(next, max) == next <= max /\ Inserted(db) < MaxRows

\* no request is being served: the last response has been delivered
Idle == req.op = "none"

\* the handler answered and left the store alone
Answer(r, a) == /\ req' = r /\ res' = a /\ UNCHANGED <<db, now, view, calls>>

\* the handler ran a repository call: the store is the call's, whatever it answers
Served(r, call, a) ==
    /\ req' = r /\ res' = a /\ db' = call.db /\ UNCHANGED <<now, view, calls>>

NoRequest == Request("none", NoId, NoBody)
NoResponse == Response(0, "", NoBody)

\* res.json(...) / res.send(): the response leaves, the next request can be served
Deliver == /\ ~Idle /\ req' = NoRequest /\ res' = NoResponse /\ UNCHANGED <<db, now, view, calls>>

\* app.get("/api/pets")
RouteGetPets ==
    \E result \in getPets(db) :
        Answer(Request("GET /api/pets", NoId, NoBody), Response(200, "", result))

\* app.get("/api/pets/:id")
RouteGetPet(param) ==
    LET id == ParseInt(param)
        r == Request("GET /api/pets/:id", id, NoBody)
        pet == getPet(db, id)
    IN  IF IsNaN(id) THEN Answer(r, Response(400, "Invalid pet ID", NoBody))
        ELSE IF pet = <<>> THEN Answer(r, Response(404, "Pet not found", NoBody))
        ELSE Answer(r, Response(200, "", pet))

\* app.post("/api/pets")
RoutePostPets(body) ==
    LET r == Request("POST /api/pets", NoId, body)
        call == createPet(db, Strip(body, InsertPetKeys))
    IN  IF ~ValidInsertPet(body) THEN Answer(r, Response(400, ZodIssues, NoBody))
        ELSE /\ Room(db.seq.pets, MaxPets)
             /\ Served(r, call, Response(201, "", call.rows))

\* app.patch("/api/pets/:id")
RoutePatchPet(param, body) ==
    LET id == ParseInt(param)
        r == Request("PATCH /api/pets/:id", id, body)
        call == updatePet(db, id, Strip(body, InsertPetKeys))
    IN  IF IsNaN(id) THEN Answer(r, Response(400, "Invalid pet ID", NoBody))
        ELSE IF ~ValidPartialPet(body) THEN Answer(r, Response(400, ZodIssues, NoBody))
        ELSE IF ~call.ok THEN Served(r, call, Response(400, call.error, NoBody))
        ELSE IF call.rows = <<>> THEN Served(r, call, Response(404, "Pet not found", NoBody))
        ELSE Served(r, call, Response(200, "", call.rows))

\* the handler without the isNaN check of the id
RouteDeletePet_IdUnchecked(param) ==
    LET id == ParseInt(param)
        r == Request("DELETE /api/pets/:id", id, NoBody)
    IN  Served(r, deletePet(db, id), Response(204, "", NoBody))

\* app.delete("/api/pets/:id")
RouteDeletePet(param) ==
    LET id == ParseInt(param)
        r == Request("DELETE /api/pets/:id", id, NoBody)
    IN  IF IsNaN(id) THEN Answer(r, Response(400, "Invalid pet ID", NoBody))
        ELSE Served(r, deletePet(db, id), Response(204, "", NoBody))

\* app.get("/api/pets/:id/weights")
RouteGetPetWeights(param) ==
    LET petId == ParseInt(param)
        r == Request("GET /api/pets/:id/weights", petId, NoBody)
    IN  IF IsNaN(petId) THEN Answer(r, Response(400, "Invalid pet ID", NoBody))
        ELSE \E result \in getWeightEntries(db, petId) : Answer(r, Response(200, "", result))

\* app.get("/api/weight-entries")
RouteGetWeightEntries ==
    \E result \in getAllWeightEntries(db) :
        Answer(Request("GET /api/weight-entries", NoId, NoBody), Response(200, "", result))

\* the handler that answers a ZodError like any other error, with its message
RoutePostWeightEntries_MessageOnly(body) ==
    LET r == Request("POST /api/weight-entries", NoId, body)
        call == createWeightEntry(db, body)
    IN  IF ~ValidInsertWeightEntry(body)
        THEN Answer(r, Response(400, "ZodError.message", NoBody))
        ELSE /\ Room(db.seq.weightEntries, MaxWeights)
             /\ IF call.ok THEN Served(r, call, Response(201, "", call.rows))
                ELSE Served(r, call, Response(400, call.error, NoBody))

\* app.post("/api/weight-entries")
RoutePostWeightEntries(body) ==
    LET r == Request("POST /api/weight-entries", NoId, body)
        call == createWeightEntry(db, body)
    IN  IF ~ValidInsertWeightEntry(body) THEN Answer(r, Response(400, ZodIssues, NoBody))
        ELSE /\ Room(db.seq.weightEntries, MaxWeights)
             /\ IF call.ok THEN Served(r, call, Response(201, "", call.rows))
                ELSE Served(r, call, Response(400, call.error, NoBody))

\* app.get("/api/events")
RouteGetEvents ==
    \E result \in getEvents(db) :
        Answer(Request("GET /api/events", NoId, NoBody), Response(200, "", result))

\* app.get("/api/pets/:id/events")
RouteGetPetEvents(param) ==
    LET petId == ParseInt(param)
        r == Request("GET /api/pets/:id/events", petId, NoBody)
    IN  IF IsNaN(petId) THEN Answer(r, Response(400, "Invalid pet ID", NoBody))
        ELSE \E result \in getEventsByPet(db, petId) : Answer(r, Response(200, "", result))

\* the handler with the schema validation ahead of the petIds check
RoutePostEvents_SchemaFirst(body) ==
    LET r == Request("POST /api/events", NoId, body)
        call == createEvent(db, EventData(body), body.petIds.items)
    IN  IF ~ValidInsertEvent(EventData(body))
        THEN Answer(r, Response(400, ZodIssues, NoBody))
        ELSE IF NoPetSelected(body)
        THEN Answer(r, Response(400, "At least one pet must be selected", NoBody))
        ELSE /\ Room(db.seq.events, MaxEvents)
             /\ db.seq.petEvents + Len(body.petIds.items) - 1 <= MaxPetEvents
             /\ IF call.ok THEN Served(r, call, Response(201, "", call.rows))
                ELSE Served(r, call, Response(400, call.error, NoBody))

\* app.post("/api/events")
RoutePostEvents(body) ==
    LET r == Request("POST /api/events", NoId, body)
        call == createEvent(db, EventData(body), body.petIds.items)
    IN  IF NoPetSelected(body)
        THEN Answer(r, Response(400, "At least one pet must be selected", NoBody))
        ELSE IF ~ValidInsertEvent(EventData(body))
        THEN Answer(r, Response(400, ZodIssues, NoBody))
        ELSE /\ Room(db.seq.events, MaxEvents)
             /\ db.seq.petEvents + Len(body.petIds.items) - 1 <= MaxPetEvents
             /\ IF call.ok THEN Served(r, call, Response(201, "", call.rows))
                ELSE Served(r, call, Response(400, call.error, NoBody))

\* the handler that looks the event up first and answers 404 when it is absent
RouteDeleteEvent_ExistenceChecked(param) ==
    LET id == ParseInt(param)
        r == Request("DELETE /api/events/:id", id, NoBody)
    IN  IF IsNaN(id) THEN Answer(r, Response(400, "Invalid event ID", NoBody))
        ELSE IF id \notin Ids(db.events)
        THEN Answer(r, Response(404, "Event not found", NoBody))
        ELSE Served(r, deleteEvent(db, id), Response(204, "", NoBody))

\* app.delete("/api/events/:id")
RouteDeleteEvent(param) ==
    LET id == ParseInt(param)
        r == Request("DELETE /api/events/:id", id, NoBody)
    IN  IF IsNaN(id) THEN Answer(r, Response(400, "Invalid event ID", NoBody))
        ELSE Served(r, deleteEvent(db, id), Response(204, "", NoBody))

\* what answers a request that no route of registerRoutes matches is decided
\* after registerRoutes: Express's own 404, or the page of a catch-all
UnmatchedStatuses == {404, 200}

\* a request whose method and path no app.get/post/patch/delete of
\* registerRoutes matches: no handler runs and no repository method is called
RouteUnmatched(op, param, body) ==
    \E status \in UnmatchedStatuses :
        Answer(Request(op, ParseInt(param), body), Response(status, "", NoBody))

----------------------------------------------------------------------------
(* The repository called directly (IStorage), as the routes, the seed and   *)
(* any other caller use it.  The "response" is the promise's outcome: the   *)
(* rows it resolves to, or the message of the error it rejects with.        *)

Fulfilled(rows) == Response(0, "", rows)
Rejected(msg) == Response(0, msg, NoBody)
Outcome(call) == IF call.ok THEN Fulfilled(call.rows) ELSE Rejected(call.error)

\* one repository call: its name, its id argument, its data argument, its result
Call(name, id, data, call) == Served(Request(name, id, data), call, Outcome(call))

StorageCreatePet(pet) ==
    /\ Room(db.seq.pets, MaxPets)
    /\ Call("storage.createPet", NoId, pet, createPet(db, pet))

StorageUpdatePet(id, data) ==
    Call("storage.updatePet", id, data, updatePet(db, id, data))

StorageDeletePet(id) ==
    Call("storage.deletePet", id, NoBody, deletePet(db, id))

StorageCreateWeightEntry(entry) ==
    /\ Room(db.seq.weightEntries, MaxWeights)
    /\ Call("storage.createWeightEntry", NoId, entry, createWeightEntry(db, entry))

StorageCreateEvent(event, petIds) ==
    /\ Room(db.seq.events, MaxEvents)
    /\ db.seq.petEvents + Len(petIds) - 1 <= MaxPetEvents
    /\ Call("storage.createEvent", NoId, petIds, createEvent(db, event, petIds))

StorageDeleteEvent(id) ==
    Call("storage.deleteEvent", id, NoBody, deleteEvent(db, id))

StorageCreateVaccination(data) ==
    /\ Room(db.seq.vaccinations, MaxVaccinations)
    /\ Call("storage.createVaccination", NoId, data, createVaccination(db, data))

StorageUpdateVaccination(id, data) ==
    Call("storage.updateVaccination", id, data, updateVaccination(db, id, data))

StorageDeleteVaccination(id) ==
    Call("storage.deleteVaccination", id, NoBody, deleteVaccination(db, id))

StorageCreateMedication(data) ==
    /\ Room(db.seq.medications, MaxMedications)
    /\ Call("storage.createMedication", NoId, data, createMedication(db, data))

StorageUpdateMedication(id, data) ==
    Call("storage.updateMedication", id, data, updateMedication(db, id, data))

StorageDeleteMedication(id) ==
    Call("storage.deleteMedication", id, NoBody, deleteMedication(db, id))

----------------------------------------------------------------------------
(* The pet detail page (client/src/pages/pet-detail.tsx) *)

\* the status tiers with the "due" window of three days instead of thirty
getVaccinationStatus_ThreeDays(vax, instant) ==
    LET daysUntilDue == DifferenceInDays(ParseISO(Val(vax.nextDueDate)), instant)
    IN  IF IsNull(vax.nextDueDate)
        THEN [label |-> "Recorded", n |-> 0, variant |-> "secondary"]
        ELSE IF daysUntilDue < 0
        THEN [label |-> "Overdue", n |-> 0, variant |-> "destructive"]
        ELSE IF daysUntilDue <= 3
        THEN [label |-> "Due in N days", n |-> daysUntilDue, variant |-> "default"]
        ELSE [label |-> "Current", n |-> 0, variant |-> "secondary"]

\* getVaccinationStatus(vax), evaluated at the instant `new Date()` returns;
\* n is the number the label `Due in ${daysUntilDue} days` shows
getVaccinationStatus(vax, instant) ==
    LET daysUntilDue == DifferenceInDays(ParseISO(Val(vax.nextDueDate)), instant)
    IN  IF IsNull(vax.nextDueDate)
        THEN [label |-> "Recorded", n |-> 0, variant |-> "secondary"]
        ELSE IF daysUntilDue < 0
        THEN [label |-> "Overdue", n |-> 0, variant |-> "destructive"]
        ELSE IF daysUntilDue <= 30
        THEN [label |-> "Due in N days", n |-> daysUntilDue, variant |-> "default"]
        ELSE [label |-> "Current", n |-> 0, variant |-> "secondary"]

\* the badge of an upcoming item: `${Math.abs(daysUntil)}d overdue`, "Today", `${daysUntil}d`
UpcomingBadge(daysUntil) ==
    IF daysUntil < 0 THEN [text |-> "Nd overdue", n |-> Abs(daysUntil)]
    ELSE IF daysUntil = 0 THEN [text |-> "Today", n |-> 0]
    ELSE [text |-> "Nd", n |-> daysUntil]

\* the upcomingItems a vaccination contributes: none, or one item
UpcomingVaccinationItems(vax, instant) ==
    LET days == DifferenceInDays(ParseISO(Val(vax.nextDueDate)), instant)
    IN  IF ~IsNull(vax.nextDueDate) /\ days <= 90
        THEN << [ type |-> "vaccination", daysUntil |-> days,
                  variant |-> IF days < 0 THEN "destructive"
                              ELSE IF days <= 14 THEN "default" ELSE "secondary",
                  badge |-> UpcomingBadge(days) ] >>
        ELSE <<>>

\* toggleMedicationMutation: the body of PATCH /api/medications/:id is { active }
ToggleMedicationBody(active) == [active |-> active]

\* the medications shown under "Active" and under "Completed"
activeMedications(medicationsData) == {m \in medicationsData : m.active}
pastMedications(medicationsData) == {m \in medicationsData : ~m.active}

\* the page renders a vaccination: its status badge and its upcoming item
RenderVaccination(vax) ==
    /\ view' = [ page |-> "pet-detail", vax |-> vax, at |-> now,
                 status |-> getVaccinationStatus(vax, now),
                 upcoming |-> UpcomingVaccinationItems(vax, now) ]
    /\ UNCHANGED <<db, req, res, now, calls>>

\* time passes in the browser
Tick(last) == /\ now < last /\ now' = now + 1 /\ UNCHANGED <<db, req, res, view, calls>>

----------------------------------------------------------------------------
(* The reminders page (client/src/pages/reminders.tsx) *)

\* today.setHours(0, 0, 0, 0): the midnight that starts the day of the instant
SetHoursZero(instant) == (instant \div TicksPerDay) * TicksPerDay

\* `day` for one and `days` otherwise
DayWord(n) == IF n = 1 THEN "day" ELSE "days"

\* the status computed against the instant itself, its hours not cleared
getStatus_HoursKept(eventDate, instant) ==
    LET daysUntil == DifferenceInDays(ParseISO(eventDate), instant)
    IN  IF daysUntil < 0
        THEN [ status |-> "overdue", daysUntil |-> daysUntil,
               label |-> [form |-> "N overdue", n |-> Abs(daysUntil),
                          unit |-> DayWord(Abs(daysUntil))] ]
        ELSE IF daysUntil = 0
        THEN [ status |-> "today", daysUntil |-> daysUntil,
               label |-> [form |-> "Today", n |-> 0, unit |-> ""] ]
        ELSE IF daysUntil <= 3
        THEN [ status |-> "soon", daysUntil |-> daysUntil,
               label |-> [form |-> "In N", n |-> daysUntil, unit |-> DayWord(daysUntil)] ]
        ELSE [ status |-> "upcoming", daysUntil |-> daysUntil,
               label |-> [form |-> "In N", n |-> daysUntil, unit |-> "days"] ]

\* getStatus(eventDate), evaluated at the instant `new Date()` returns; the
\* label is `${n} ${unit} overdue`, "Today" or `In ${n} ${unit}`
getStatus(eventDate, instant) ==
    LET today == SetHoursZero(instant)
        daysUntil == DifferenceInDays(ParseISO(eventDate), today)
    IN  IF daysUntil < 0
        THEN [ status |-> "overdue", daysUntil |-> daysUntil,
               label |-> [form |-> "N overdue", n |-> Abs(daysUntil),
                          unit |-> DayWord(Abs(daysUntil))] ]
        ELSE IF daysUntil = 0
        THEN [ status |-> "today", daysUntil |-> daysUntil,
               label |-> [form |-> "Today", n |-> 0, unit |-> ""] ]
        ELSE IF daysUntil <= 3
        THEN [ status |-> "soon", daysUntil |-> daysUntil,
               label |-> [form |-> "In N", n |-> daysUntil, unit |-> DayWord(daysUntil)] ]
        ELSE [ status |-> "upcoming", daysUntil |-> daysUntil,
               label |-> [form |-> "In N", n |-> daysUntil, unit |-> "days"] ]

\* date-fns addDays, isAfter, isBefore
AddDays(instant, n) == instant + n * TicksPerDay
IsAfter(a, b) == a > b
IsBefore(a, b) == a < b

\* { ...e, ...r }: the fields of r, and those of e that r does not name
Spread(e, r) == [f \in DOMAIN e \cup DOMAIN r |-> IF f \in DOMAIN r THEN r[f] ELSE e[f]]

\* Array.prototype.sort((a, b) => a.daysUntil - b.daysUntil): ascending and
\* stable, equal elements keep their order
InsertByDaysUntil(sorted, e) ==
    LET before == SelectSeq(sorted, LAMBDA x : x.daysUntil <= e.daysUntil)
        after == SelectSeq(sorted, LAMBDA x : x.daysUntil > e.daysUntil)
    IN  before \o <<e>> \o after

RECURSIVE SortByDaysUntil(_)
SortByDaysUntil(list) ==
    IF list = <<>> THEN <<>>
    ELSE InsertByDaysUntil(SortByDaysUntil(SubSeq(list, 1, Len(list) - 1)), list[Len(list)])

\* RemindersPage upcomingEvents: filter by the window, attach the status, sort
RemindersUpcomingEvents(events, instant) ==
    LET today == SetHoursZero(instant)
        inWindow(e) == /\ IsAfter(ParseISO(e.eventDate), AddDays(today, -7))
                       /\ IsBefore(ParseISO(e.eventDate), AddDays(today, 90))
        kept == SelectSeq(events, inWindow)
    IN  SortByDaysUntil([i \in DOMAIN kept |-> Spread(kept[i], getStatus(kept[i].eventDate, instant))])

\* the reminders page renders the events of GET /api/events
RenderReminders(events) ==
    /\ view' = [ page |-> "reminders", at |-> now, events |-> events,
                 upcomingEvents |-> RemindersUpcomingEvents(events, now) ]
    /\ UNCHANGED <<db, req, res, now, calls>>

\* the status of one event date is computed
EvalGetStatus(eventDate) ==
    /\ view' = [ page |-> "getStatus", at |-> now, eventDate |-> eventDate,
                 result |-> getStatus(eventDate, now) ]
    /\ UNCHANGED <<db, req, res, now, calls>>

----------------------------------------------------------------------------
(* The dashboard (client/src/pages/dashboard.tsx) *)

\* the overdue reminders taken against the midnight that starts today
DashboardOverdueReminders_FromMidnight(events, instant) ==
    LET today == SetHoursZero(instant)
        overdue(e) == /\ ~IsNull(e.reminderDate)
                      /\ IsBefore(ParseISO(Val(e.reminderDate)), today)
                      /\ IsAfter(ParseISO(e.eventDate), today)
    IN  SelectSeq(events, overdue)

\* Dashboard upcomingEvents; today is `new Date()`, its hours kept
DashboardUpcomingEvents(events, instant) ==
    LET today == instant
        upcoming(e) == /\ IsAfter(ParseISO(e.eventDate), today)
                       /\ IsBefore(ParseISO(e.eventDate), AddDays(today, 30))
    IN  SelectSeq(events, upcoming)

\* Dashboard overdueReminders; today is `new Date()`, its hours kept
DashboardOverdueReminders(events, instant) ==
    LET today == instant
        overdue(e) == /\ ~IsNull(e.reminderDate)
                      /\ IsBefore(ParseISO(Val(e.reminderDate)), today)
                      /\ IsAfter(ParseISO(e.eventDate), today)
    IN  SelectSeq(events, overdue)

\* the dashboard renders the events of GET /api/events
RenderDashboard(events) ==
    /\ view' = [ page |-> "dashboard", at |-> now, events |-> events,
                 upcomingEvents |-> DashboardUpcomingEvents(events, now),
                 overdueReminders |-> DashboardOverdueReminders(events, now) ]
    /\ UNCHANGED <<db, req, res, now, calls>>

\* no page is shown, and the user leaves the page shown
NoPage == view.page = "none"
Leave == /\ ~NoPage /\ view' = [page |-> "none"] /\ UNCHANGED <<db, req, res, now, calls>>

----------------------------------------------------------------------------
(* The sample data (server/seed.ts) *)

\* the pets, the events and the weights (in tenths) of the seed, in the order
\* of its values lists
SeedPets ==
    << [name |-> "Buddy", breed |-> "Pug", species |-> "dog",
        dateOfBirth |-> Some(<<2020, 3, 15>>), gender |-> Some("male"), color |-> Some("Fawn")],
       [name |-> "Luna", breed |-> "Puggle", species |-> "dog",
        dateOfBirth |-> Some(<<2021, 7, 22>>), gender |-> Some("female"),
        color |-> Some("Black & Tan")],
       [name |-> "Max", breed |-> "French Bulldog", species |-> "dog",
        dateOfBirth |-> Some(<<2019, 11, 8>>), gender |-> Some("male"),
        color |-> Some("Brindle")] >>

SeedEvents ==
    << [title |-> "Annual Wellness Exam", category |-> "vet_visit", eventDate |-> <<2025, 12, 10>>],
       [title |-> "Rabies Vaccination", category |-> "vaccination", eventDate |-> <<2025, 12, 10>>],
       [title |-> "Heartworm Prevention", category |-> "medication", eventDate |-> <<2026, 1, 1>>,
        reminderDate |-> Some(<<2026, 1, 28>>)],
       [title |-> "Dental Cleaning", category |-> "appointment", eventDate |-> <<2026, 3, 15>>,
        reminderDate |-> Some(<<2026, 3, 10>>)],
       [title |-> "Skin Allergy Checkup", category |-> "vet_visit", eventDate |-> <<2026, 1, 20>>],
       [title |-> "DHPP Booster", category |-> "vaccination", eventDate |-> <<2026, 2, 14>>,
        reminderDate |-> Some(<<2026, 2, 10>>)] >>

SeedWeightDates ==
    << <<2025, 8, 1>>, <<2025, 9, 1>>, <<2025, 10, 1>>, <<2025, 11, 1>>,
       <<2025, 12, 1>>, <<2026, 1, 1>> >>

SeedWeights ==
    << <<142, 145, 148, 151, 149, 150>>,
       <<180, 183, 185, 182, 186, 184>>,
       <<240, 245, 250, 248, 252, 250>> >>

\* the join rows of the seed as <<pet, event>>, by position in the two lists
SeedLinks ==
    << <<1, 1>>, <<2, 1>>, <<1, 2>>, <<2, 2>>, <<3, 2>>, <<1, 3>>, <<2, 3>>, <<3, 3>>,
       <<1, 4>>, <<2, 5>>, <<3, 6>> >>

\* seedDatabase(): nothing when the pets table has a row; else the four
\* multi-row inserts, the ids of the new pets and events used in the rows
\* that reference them
seedDatabase(d) ==
    LET count == Cardinality(d.pets)
        petId(i) == d.seq.pets + i - 1
        eventId(j) == d.seq.events + j - 1
        n == Len(SeedWeightDates)
    IN  IF count > 0 THEN Ok(d, <<>>)
        ELSE Ok([d EXCEPT
                   !.pets = @ \cup {PetRow(petId(i), SeedPets[i]) : i \in DOMAIN SeedPets},
                   !.weightEntries = @ \cup
                       { WeightEntryRow(d.seq.weightEntries + (i - 1) * n + k - 1,
                                        [petId |-> petId(i), weight |-> SeedWeights[i][k],
                                         unit |-> "lbs", recordedAt |-> SeedWeightDates[k]])
                         : i \in DOMAIN SeedWeights, k \in 1..n },
                   !.events = @ \cup {EventRow(eventId(j), SeedEvents[j]) : j \in DOMAIN SeedEvents},
                   !.petEvents = @ \cup
                       { PetEventRow(d.seq.petEvents + m - 1,
                                     [petId |-> petId(SeedLinks[m][1]),
                                      eventId |-> eventId(SeedLinks[m][2])])
                         : m \in DOMAIN SeedLinks },
                   !.seq.pets = @ + Len(SeedPets),
                   !.seq.weightEntries = @ + Len(SeedWeights) * n,
                   !.seq.events = @ + Len(SeedEvents),
                   !.seq.petEvents = @ + Len(SeedLinks)], <<>>)

\* the server starts and runs the seed
RunSeedDatabase ==
    /\ db.pets = {} => db.seq.pets + Len(SeedPets) - 1 <= MaxSeedPets
    /\ Call("seedDatabase", NoId, NoBody, seedDatabase(db))

----------------------------------------------------------------------------
(* The repository statement by statement.  Every `await` of a method of     *)
(* DatabaseStorage is a point where the statements of other calls can run;  *)
(* a call is the caller's method, its arguments, the statement it runs      *)
(* next and the values of its local variables.                              *)

Callers == 1..MaxCallers

\* a caller with no call in progress
IdleCall ==
    [ op |-> "none", pc |-> "idle", id |-> NoId, petIds |-> <<>>, created |-> <<>>,
      eventIds |-> {}, allEvents |-> <<>>, result |-> <<>>, error |-> "" ]

NoCalls == [c \in Callers |-> IdleCall]

\* the call of a method, about to run its first statement
Begin(op, id) == [IdleCall EXCEPT !.op = op, !.id = id]

\* the caller goes on with call record k; the store is d
Goto(c, k, d) ==
    /\ calls' = [calls EXCEPT ![c] = k]
    /\ db' = d
    /\ UNCHANGED <<req, res, now, view>>

\* the promise of the call settles
Resolve(k, rows) == [k EXCEPT !.pc = "returned", !.result = rows]
Reject(k, msg) == [k EXCEPT !.pc = "returned", !.error = msg]

\* createEvent, first statement: db.insert(events).values(event).returning()
CreateEventInsertEvent(c, event, petIds) ==
    LET s1 == InsertEvent(db, event)
        k == [Begin("createEvent", NoId) EXCEPT !.petIds = petIds, !.created = s1.rows]
    IN  /\ calls[c].pc = "idle"
        /\ Room(db.seq.events, MaxEvents)
        /\ db.seq.petEvents + Len(petIds) - 1 <= MaxPetEvents
        /\ IF Len(petIds) > 0
           THEN Goto(c, [k EXCEPT !.pc = "insertPetEvents"], s1.db)
           ELSE Goto(c, Resolve(k, s1.rows), s1.db)

\* createEvent, second statement: db.insert(petEvents).values(petIds.map(...))
CreateEventInsertPetEvents(c) ==
    LET k == calls[c]
        s2 == InsertPetEvents(db, [i \in DOMAIN k.petIds |->
                                     [petId |-> k.petIds[i], eventId |-> k.created[1].id]])
    IN  /\ k.op = "createEvent" /\ k.pc = "insertPetEvents"
        /\ IF s2.ok THEN Goto(c, Resolve(k, k.created), s2.db)
           ELSE Goto(c, Reject(k, s2.error), s2.db)

\* a deleteEvent whose first statement deletes the event row
DeleteEventDeletePetEvents_EventFirst(c, id) ==
    /\ calls[c].pc = "idle"
    /\ Goto(c, [Begin("deleteEvent", id) EXCEPT !.pc = "deleteEvents"],
            DeleteEventWhereId(db, id).db)

\* deleteEvent, first statement: db.delete(petEvents).where(eq(petEvents.eventId, id))
DeleteEventDeletePetEvents(c, id) ==
    /\ calls[c].pc = "idle"
    /\ Goto(c, [Begin("deleteEvent", id) EXCEPT !.pc = "deleteEvents"],
            DeletePetEventsWhereEventId(db, id).db)

\* deleteEvent, second statement: db.delete(events).where(eq(events.id, id))
DeleteEventDeleteEvents(c) ==
    /\ calls[c].op = "deleteEvent" /\ calls[c].pc = "deleteEvents"
    /\ Goto(c, Resolve(calls[c], <<>>), DeleteEventWhereId(db, calls[c].id).db)

\* getEvents, first statement: the events by event date descending; the loop
\* follows unless there is no event
SelectEvents(c, k) ==
    \E allEvents \in OrderBy(db.events, "eventDate", "desc") :
        IF allEvents = <<>> THEN Goto(c, Resolve(k, <<>>), db)
        ELSE Goto(c, [k EXCEPT !.pc = "selectLinks", !.allEvents = allEvents], db)

GetEventsSelectEvents(c) ==
    /\ calls[c].pc = "idle"
    /\ SelectEvents(c, Begin("getEvents", NoId))

\* getEventsByPet, first statement: the event ids of the pet's join rows;
\* `if (eventIds.length === 0) return []`, else this.getEvents() is called
GetEventsByPetSelectLinks(c, petId) ==
    LET eventIds == { l.eventId : l \in {x \in db.petEvents : x.petId = petId} }
        k == [Begin("getEventsByPet", petId) EXCEPT !.eventIds = eventIds]
    IN  /\ calls[c].pc = "idle"
        /\ IF eventIds = {} THEN Goto(c, Resolve(k, <<>>), db)
           ELSE Goto(c, [k EXCEPT !.pc = "selectEvents"], db)

GetEventsByPetSelectEvents(c) ==
    /\ calls[c].op = "getEventsByPet" /\ calls[c].pc = "selectEvents"
    /\ SelectEvents(c, calls[c])

\* one turn of the loop of getEvents: the pets linked to the next event are
\* selected and the event is pushed with them; after the last event getEvents
\* returns, and getEventsByPet keeps the events of its eventIds
GetEventsSelectLinks(c) ==
    LET k == calls[c]
        event == k.allEvents[Len(k.result) + 1]
    IN  /\ k.pc = "selectLinks"
        /\ \E ps \in LinkedPets(db, event.id) :
              LET result == Append(k.result, EventWithPets(event, ps))
              IN  IF Len(result) < Len(k.allEvents)
                  THEN Goto(c, [k EXCEPT !.result = result], db)
                  ELSE IF k.op = "getEventsByPet"
                  THEN Goto(c, Resolve(k, SelectSeq(result, LAMBDA e : e.id \in k.eventIds)), db)
                  ELSE Goto(c, Resolve(k, result), db)

\* the caller has the outcome of its call and can call again
Return(c) ==
    /\ calls[c].pc = "returned"
    /\ Goto(c, IdleCall, db)

----------------------------------------------------------------------------
(* Inputs of the store specification *)

D1 == <<2025, 8, 1>>
D2 == <<2025, 9, 1>>

\* the decimal text of the ids 1..n+1, and two texts that are no integer
IdParams(n) == {<<DigitChars[i + 1]>> : i \in 1..(n + 1)} \cup {<<"x">>, <<"2", "x">>}

\* the lists of at most n pet ids
RECURSIVE PetIdLists(_)
PetIdLists(n) ==
    IF n = 0 THEN {<<>>}
    ELSE PetIdLists(n - 1) \cup
         {Append(l, p) : l \in {x \in PetIdLists(n - 1) : Len(x) = n - 1}, p \in 1..MaxPets}

PetBodies ==
    { [name |-> "Buddy", breed |-> "Pug"],
      [name |-> "Luna", breed |-> "Puggle", species |-> "dog", dateOfBirth |-> Some(D1),
       avatarUrl |-> Some("/objects/luna.jpg"), color |-> Some("Black & Tan"),
       gender |-> Some("Female"), microchipNumber |-> Some("985112003456789")],
      [name |-> "Max"] }

PetPatches ==
    { [name |-> "Max"], [color |-> Some("Fawn")], [name |-> NotText],
      [microchipNumber |-> Some("985112003456789")] }

WeightBodies ==
    { [petId |-> p, weight |-> 14, unit |-> "lbs", recordedAt |-> d]
      : p \in 1..MaxPets, d \in {D1, D2} }
    \cup { [petId |-> 1, weight |-> 14] }

PetIdsValues ==
    { [type |-> "array", items |-> l] : l \in PetIdLists(MaxPetIds) }
    \cup { [type |-> "null", items |-> <<>>], [type |-> "string", items |-> <<>>] }

EventFields ==
    { [title |-> "Annual Wellness Exam", category |-> "vet_visit", eventDate |-> D1],
      [title |-> "Rabies Vaccination", category |-> "vaccination", eventDate |-> D2],
      [title |-> "Grooming", category |-> "grooming", eventDate |-> D1] }

\* an event body: the event fields, with or without a petIds value
WithPetIds(fields, petIds) ==
    [f \in DOMAIN fields \cup {"petIds"} |-> IF f = "petIds" THEN petIds ELSE fields[f]]

EventBodies == EventFields \cup {WithPetIds(f, v) : f \in EventFields, v \in PetIdsValues}

\* typed arguments of the direct repository calls
StoragePets == {Strip(b, InsertPetKeys) : b \in {x \in PetBodies : ValidInsertPet(x)}}
StoragePetPatches == {Strip(b, InsertPetKeys) : b \in {x \in PetPatches : ValidPartialPet(x)}}
StorageWeights == {b \in WeightBodies : ValidInsertWeightEntry(b)}
StorageEvents == {b \in EventFields : ValidInsertEvent(b)}

SourceEventRefs == {NULL} \cup {Some(e) : e \in 1..MaxEvents}

VaccinationInputs ==
    { [petId |-> p, name |-> "Rabies", dateAdministered |-> D1, sourceEventId |-> e]
      : p \in 1..MaxPets, e \in SourceEventRefs }

VaccinationPatches == { [nextDueDate |-> Some(D2)], [petId |-> 2] }

MedicationInputs ==
    { [petId |-> p, name |-> "Apoquel", startDate |-> D1, endDate |-> Some(D2),
       active |-> TRUE, sourceEventId |-> e]
      : p \in 1..MaxPets, e \in SourceEventRefs }

MedicationPatches ==
    {ToggleMedicationBody(active) : active \in BOOLEAN} \cup {[endDate |-> NULL]}

\* the ids in the paths of the pet detail page's requests, as decimal text
DetailIdParams == {<<DigitChars[i + 1]>> : i \in 1..MaxPets}

\* the bodies the vaccination and medication dialogs submit for a pet
VaccinationBodies == {v \in VaccinationInputs : IsNull(v.sourceEventId)}
MedicationBodies == {m \in MedicationInputs : IsNull(m.sourceEventId)}

----------------------------------------------------------------------------
(* The store specification: requests served one at a time, in any order *)

Init ==
    /\ db = EmptyDb
    /\ req = NoRequest
    /\ res = NoResponse
    /\ now = 0
    /\ view = [page |-> "none"]
    /\ calls = NoCalls

\* the server of server/routes.ts: one request is served at a time
Next ==
    \/ Idle /\ RouteGetPets
    \/ Idle /\ \E param \in IdParams(MaxPets) : RouteGetPet(param)
    \/ Idle /\ \E body \in PetBodies : RoutePostPets(body)
    \/ Idle /\ \E param \in IdParams(MaxPets), body \in PetPatches : RoutePatchPet(param, body)
    \/ Idle /\ \E param \in IdParams(MaxPets) : RouteDeletePet(param)
    \/ Idle /\ \E param \in IdParams(MaxPets) : RouteGetPetWeights(param)
    \/ Idle /\ RouteGetWeightEntries
    \/ Idle /\ \E body \in WeightBodies : RoutePostWeightEntries(body)
    \/ Idle /\ RouteGetEvents
    \/ Idle /\ \E param \in IdParams(MaxPets) : RouteGetPetEvents(param)
    \/ Idle /\ \E body \in EventBodies : RoutePostEvents(body)
    \/ Idle /\ \E param \in IdParams(MaxEvents) : RouteDeleteEvent(param)
    \/ Idle /\ \E param \in DetailIdParams :
                  RouteUnmatched("GET /api/pets/:id/vaccinations", param, NoBody)
    \/ Idle /\ \E param \in DetailIdParams, body \in VaccinationBodies :
                  RouteUnmatched("POST /api/pets/:id/vaccinations", param, body)
    \/ Idle /\ \E param \in DetailIdParams, body \in VaccinationPatches :
                  RouteUnmatched("PATCH /api/vaccinations/:id", param, body)
    \/ Idle /\ \E param \in DetailIdParams :
                  RouteUnmatched("DELETE /api/vaccinations/:id", param, NoBody)
    \/ Idle /\ \E param \in DetailIdParams :
                  RouteUnmatched("GET /api/pets/:id/medications", param, NoBody)
    \/ Idle /\ \E param \in DetailIdParams, body \in MedicationBodies :
                  RouteUnmatched("POST /api/pets/:id/medications", param, body)
    \/ Idle /\ \E param \in DetailIdParams, body \in MedicationPatches :
                  RouteUnmatched("PATCH /api/medications/:id", param, body)
    \/ Idle /\ \E param \in DetailIdParams :
                  RouteUnmatched("DELETE /api/medications/:id", param, NoBody)
    \/ Deliver

Spec == Init /\ [][Next]_vars

\* the repository under any sequence of its mutating calls
NextStorage ==
    \/ Idle /\ \E pet \in StoragePets : StorageCreatePet(pet)
    \/ Idle /\ \E id \in 1..MaxPets, data \in StoragePetPatches : StorageUpdatePet(id, data)
    \/ Idle /\ \E id \in 1..MaxPets : StorageDeletePet(id)
    \/ Idle /\ \E entry \in StorageWeights : StorageCreateWeightEntry(entry)
    \/ Idle /\ \E event \in StorageEvents, petIds \in PetIdLists(MaxPetIds) :
                  StorageCreateEvent(event, petIds)
    \/ Idle /\ \E id \in 1..MaxEvents : StorageDeleteEvent(id)
    \/ Idle /\ \E data \in VaccinationInputs : StorageCreateVaccination(data)
    \/ Idle /\ \E id \in 1..MaxVaccinations, data \in VaccinationPatches :
                  StorageUpdateVaccination(id, data)
    \/ Idle /\ \E id \in 1..MaxVaccinations : StorageDeleteVaccination(id)
    \/ Idle /\ \E data \in MedicationInputs : StorageCreateMedication(data)
    \/ Idle /\ \E id \in 1..MaxMedications, data \in MedicationPatches :
                  StorageUpdateMedication(id, data)
    \/ Idle /\ \E id \in 1..MaxMedications : StorageDeleteMedication(id)
    \/ Deliver

SpecStorage == Init /\ [][NextStorage]_vars

\* the store in which the pets Buddy and Luna have been created
StepsStartDb ==
    createPet(createPet(EmptyDb, [name |-> "Buddy", breed |-> "Pug"]).db,
              [name |-> "Luna", breed |-> "Puggle"]).db

InitSteps ==
    /\ db = StepsStartDb
    /\ req = NoRequest
    /\ res = NoResponse
    /\ now = 0
    /\ view = [page |-> "none"]
    /\ calls = NoCalls

\* the event calls of the repository, their statements interleaved; events
\* are created for a non-empty list of pets, as POST /api/events requires
NextSteps ==
    \E c \in Callers :
        \/ \E event \in StorageEvents, petIds \in PetIdLists(MaxPetIds) \ {<<>>} :
              CreateEventInsertEvent(c, event, petIds)
        \/ CreateEventInsertPetEvents(c)
        \/ \E id \in 1..MaxEvents : DeleteEventDeletePetEvents(c, id)
        \/ DeleteEventDeleteEvents(c)
        \/ GetEventsSelectEvents(c)
        \/ \E petId \in 1..MaxPets : GetEventsByPetSelectLinks(c, petId)
        \/ GetEventsByPetSelectEvents(c)
        \/ GetEventsSelectLinks(c)
        \/ Return(c)

SpecSteps == InitSteps /\ [][NextSteps]_vars

\* the server restarted, which runs the seed, between deletions of pets and
\* of events
NextSeed ==
    \/ Idle /\ RunSeedDatabase
    \/ Idle /\ \E id \in 1..MaxSeedPets : StorageDeletePet(id)
    \/ Idle /\ \E id \in 1..MaxEvents : StorageDeleteEvent(id)
    \/ Deliver

SpecSeed == Init /\ [][NextSeed]_vars

----------------------------------------------------------------------------
(* The status specification: the pet detail page shows vaccinations while   *)
(* the clock runs from the midnight that starts 2026-01-15.                  *)

StatusStart == ParseISO(<<2026, 1, 15>>)

\* the next-due dates shown: none, or any day of January to April 2026
ShownDueDates ==
    {date \in {<<2026, m, d>> : m \in 1..4, d \in 1..31} : date[3] <= DaysInMonth[date[2]]}

ShownVaccinations ==
    { VaccinationRow(1, [petId |-> 1, name |-> "Rabies", dateAdministered |-> D1,
                         nextDueDate |-> due])
      : due \in {NULL} \cup {Some(date) : date \in ShownDueDates} }

\* the event dates shown on the reminders page: around today and around the
\* ends of the window, 7 days back and 90 days ahead
ReminderDates ==
    {<<2026, 1, d>> : d \in {7, 8, 9, 10, 15, 16, 17}} \cup {<<2026, 4, d>> : d \in 14..17}

ShownEvent(id, eventDate, reminderDate) ==
    EventRow(id, [title |-> "Checkup", category |-> "vet_visit",
                  eventDate |-> eventDate, reminderDate |-> reminderDate])

\* the lists of at most n events with the given dates and reminder dates
RECURSIVE EventLists(_, _, _)
EventLists(n, dates, reminders) ==
    IF n = 0 THEN {<<>>}
    ELSE EventLists(n - 1, dates, reminders) \cup
         { Append(l, ShownEvent(n, d, r))
           : l \in {x \in EventLists(n - 1, dates, reminders) : Len(x) = n - 1},
             d \in dates, r \in reminders }

InitStatus ==
    /\ db = EmptyDb
    /\ req = NoRequest
    /\ res = NoResponse
    /\ now = StatusStart
    /\ view = [page |-> "none"]
    /\ calls = NoCalls

\* the event dates shown on the dashboard: around today and around 30 days
\* ahead; the reminder dates: none, or a day around today
DashboardDates ==
    {<<2026, 1, d>> : d \in 14..17} \cup {<<2026, 2, d>> : d \in 13..16}
DashboardReminderDates ==
    {NULL} \cup {Some(<<2026, 1, d>>) : d \in 13..17}

NextStatus ==
    \/ NoPage /\ \E vax \in ShownVaccinations : RenderVaccination(vax)
    \/ NoPage /\ \E eventDate \in ShownDueDates : EvalGetStatus(eventDate)
    \/ NoPage /\ \E events \in EventLists(MaxShownEvents, ReminderDates, {NULL}) :
                    RenderReminders(events)
    \/ NoPage /\ \E events \in EventLists(MaxShownEvents, DashboardDates, DashboardReminderDates) :
                    RenderDashboard(events)
    \/ Leave
    \/ Tick(StatusStart + MaxClockTicks)

SpecStatus == InitStatus /\ [][NextStatus]_vars

----------------------------------------------------------------------------
(* Properties *)

Distinct(s) == \A i, j \in DOMAIN s : i # j => s[i] # s[j]
SeqIds(s) == {s[i].id : i \in DOMAIN s}
EverInserted(next) == next > 1

\* C1: deleting an existing pet leaves no weight entry, join row, vaccination
\* or medication with that pet id and no pet row with that id, and every
\* event row, pet-less or not, is still there.
C1_DeletePetCascades ==
    [][ (req'.op = "storage.deletePet" /\ req'.id \in Ids(db.pets)) =>
          /\ req'.id \notin Ids(db'.pets)
          /\ \A r \in db'.weightEntries \cup db'.petEvents
                      \cup db'.vaccinations \cup db'.medications : r.petId # req'.id
          /\ db'.events = db.events ]_vars

\* a pet that had a weight entry and an event link was deleted, and its event
\* is still stored, linked to no pet
C1_Witness ==
    /\ req.op = "storage.deletePet" /\ req.id = 1 /\ db.seq.pets = 2 /\ db.pets = {}
    /\ EverInserted(db.seq.weightEntries) /\ db.weightEntries = {}
    /\ EverInserted(db.seq.petEvents) /\ db.petEvents = {}
    /\ db.events # {}

\* C2: in every reachable state every weight entry, vaccination, medication
\* and join row references a pet that exists.
C2_DependentsReferenceExistingPet ==
    \A r \in db.weightEntries \cup db.vaccinations \cup db.medications \cup db.petEvents :
        r.petId \in Ids(db.pets)

\* one pet was deleted with its dependents while another pet keeps a
\* medication and a weight entry
C2_Witness ==
    /\ db.seq.pets = 3 /\ Cardinality(db.pets) = 1
    /\ EverInserted(db.seq.vaccinations) /\ db.vaccinations = {}
    /\ db.medications # {}

\* C3: a created event with a list of distinct pets has exactly one join row
\* per listed pet, and getEventsByPet holds it for the listed pets only.
C3_CreateEventLinksListedPets ==
    (req.op = "POST /api/events" /\ res.status = 201 /\ Distinct(req.body.petIds.items)) =>
        LET id == res.body[1].id
            petIds == req.body.petIds.items
            links == {l \in db.petEvents : l.eventId = id}
        IN  /\ Cardinality(links) = Len(petIds)
            /\ {l.petId : l \in links} = Range(petIds)
            /\ \A p \in 1..(MaxPets + 1) : \A result \in getEventsByPet(db, p) :
                   id \in SeqIds(result) <=> p \in Range(petIds)

\* an event was created for two different pets
C3_Witness ==
    /\ req.op = "POST /api/events" /\ res.status = 201
    /\ Len(req.body.petIds.items) = 2 /\ Distinct(req.body.petIds.items)
    /\ Cardinality(db.petEvents) = 2

\* petIds is missing, is no array, or is the empty array
PetIdsAbsentOrEmpty(body) ==
    \/ "petIds" \notin DOMAIN body
    \/ body.petIds.type # "array"
    \/ body.petIds.items = <<>>

\* C4: POST /api/events without a non-empty petIds array is answered 400 with
\* the message 'At least one pet must be selected', valid event fields or not,
\* and the store is unchanged.
C4_EmptyPetIdsRejected ==
    [][ (req'.op = "POST /api/events" /\ PetIdsAbsentOrEmpty(req'.body)) =>
          /\ res'.status = 400
          /\ res'.error = "At least one pet must be selected"
          /\ db' = db ]_vars

\* a request with invalid event fields and an empty petIds array was rejected
C4_Witness ==
    /\ req.op = "POST /api/events" /\ res.status = 400
    /\ Has(req.body, "petIds") /\ req.body.petIds.type = "array"
    /\ req.body.petIds.items = <<>>
    /\ ~ValidInsertEvent(EventData(req.body))

\* C5: a POST /api/events that does not succeed leaves every table as it was.
C5_CreateEventAtomic ==
    [][ (req'.op = "POST /api/events" /\ res'.status # 201) => Rows(db') = Rows(db) ]_vars

\* C6: after DELETE /api/events/:id no join row has that event id, and
\* neither getEvents nor getEventsByPet of any pet returns the event.
C6_DeleteEventUnlinks ==
    (req.op = "DELETE /api/events/:id" /\ res.status = 204) =>
        /\ \A l \in db.petEvents : l.eventId # req.id
        /\ \A result \in getEvents(db) : req.id \notin SeqIds(result)
        /\ \A p \in 1..(MaxPets + 1) : \A result \in getEventsByPet(db, p) :
               req.id \notin SeqIds(result)

\* the only event ever created, which was linked to a pet that still exists,
\* was deleted
C6_Witness ==
    /\ req.op = "DELETE /api/events/:id" /\ res.status = 204 /\ req.id = 1
    /\ db.seq.events = 2 /\ db.events = {}
    /\ EverInserted(db.seq.petEvents) /\ db.petEvents = {}
    /\ db.pets # {} /\ Cardinality(db.pets) = db.seq.pets - 1

\* C7: GET /api/pets/:id/weights returns exactly the pet's weight entries,
\* each once, by recorded date ascending.
C7_WeightsAscending ==
    (req.op = "GET /api/pets/:id/weights" /\ res.status = 200) =>
        /\ Range(res.body) = {w \in db.weightEntries : w.petId = req.id}
        /\ Distinct(res.body)
        /\ \A i, j \in DOMAIN res.body :
               i < j => DateLeq(res.body[i].recordedAt, res.body[j].recordedAt)

\* two entries of one pet, the later-dated one created first, were listed
C7_Witness ==
    /\ req.op = "GET /api/pets/:id/weights" /\ res.status = 200
    /\ Len(res.body) = 2
    /\ res.body[1].id > res.body[2].id
    /\ DateLess(res.body[1].recordedAt, res.body[2].recordedAt)

\* the order of the rows of a listing, as the sequence of their ids
IdOrder(result) == [i \in DOMAIN result |-> result[i].id]
OneOrder(results) == \A r1, r2 \in results : IdOrder(r1) = IdOrder(r2)

\* C8: each listing has one row order for given store contents, also when
\* rows share the sort key.
C8_ListingOrderDeterministic ==
    /\ OneOrder(getPets(db))
    /\ OneOrder(getEvents(db))
    /\ \A p \in Ids(db.pets) : /\ OneOrder(getVaccinationsByPet(db, p))
                               /\ OneOrder(getMedicationsByPet(db, p))

\* the calendar day of an instant, and whether the instant is past its midnight
Today(instant) == instant \div TicksPerDay
PastMidnight(instant) == instant % TicksPerDay # 0

C11_GetStatusTiers ==
    view.page = "getStatus" =>
        LET offset == DayNumber(view.eventDate) - Today(view.at)
            r == view.result
        IN  /\ r.daysUntil = offset
            /\ r.status \in {"overdue", "today", "soon", "upcoming"}
            /\ r.status = "overdue" <=> offset < 0
            /\ r.status = "today" <=> offset = 0
            /\ r.status = "soon" <=> (1 <= offset /\ offset <= 3)
            /\ r.status = "upcoming" <=> offset > 3
            /\ offset < 0 => r.label = [form |-> "N overdue", n |-> -offset,
                                        unit |-> IF offset = -1 THEN "day" ELSE "days"]
            /\ offset = 0 => r.label.form = "Today"
            /\ offset > 0 => r.label = [form |-> "In N", n |-> offset,
                                        unit |-> IF offset = 1 THEN "day" ELSE "days"]

\* past midnight of 2026-01-15 the event dated 2026-01-17 is "soon", in 2 days
C11_Witness ==
    /\ view.page = "getStatus" /\ PastMidnight(view.at)
    /\ view.eventDate = <<2026, 1, 17>> /\ Today(view.at) = DayNumber(<<2026, 1, 15>>)
    /\ view.result.status = "soon" /\ view.result.daysUntil = 2

\* C12: the reminders list holds exactly the events whose offset from today
\* is at least -7 and at most 90, in ascending order of offset.
C12_RemindersClosedWindow ==
    view.page = "reminders" =>
        LET offset(e) == DayNumber(e.eventDate) - Today(view.at)
            list == view.upcomingEvents
        IN  /\ SeqIds(list) = { view.events[i].id : i \in
                                  {k \in DOMAIN view.events :
                                     -7 <= offset(view.events[k]) /\ offset(view.events[k]) <= 90} }
            /\ Len(list) = Cardinality(SeqIds(list))
            /\ \A i, j \in DOMAIN list : i < j => offset(list[i]) <= offset(list[j])

\* whether an event is in a list of events
Listed(e, list) == \E i \in DOMAIN list : list[i] = e

C14_UpcomingWithin30Days ==
    view.page = "dashboard" =>
        /\ \A i \in DOMAIN view.events :
              LET e == view.events[i]
                  offset == DayNumber(e.eventDate) - Today(view.at)
              IN  /\ Listed(e, view.upcomingEvents) => (0 <= offset /\ offset <= 30)
                  /\ (1 <= offset /\ offset <= 29) => Listed(e, view.upcomingEvents)
        /\ view.upcomingEvents = DashboardUpcomingEvents(view.events, SetHoursZero(view.at))

\* the routes with an :id path parameter
IdRoutes ==
    { "GET /api/pets/:id", "PATCH /api/pets/:id", "DELETE /api/pets/:id",
      "GET /api/pets/:id/weights", "GET /api/pets/:id/events", "DELETE /api/events/:id" }

SchemaFails(r) ==
    \/ r.op = "POST /api/pets" /\ ~ValidInsertPet(r.body)
    \/ r.op = "PATCH /api/pets/:id" /\ ~ValidPartialPet(r.body)
    \/ r.op = "POST /api/weight-entries" /\ ~ValidInsertWeightEntry(r.body)
    \/ r.op = "POST /api/events" /\ ~ValidInsertEvent(EventData(r.body))

\* C16 as stated: a create or update request whose body fails the schema is
\* answered 400 with the list of field violations and the store is unchanged.
C16_SchemaFailureListsViolations ==
    [][ SchemaFails(req') =>
          /\ res' = Response(400, ZodIssues, NoBody)
          /\ db' = db ]_vars

\* C16 amended: such a request is answered 400 and the store is unchanged;
\* the answer carries the list of field violations, except that PATCH
\* /api/pets/:id with an id that is no number carries "Invalid pet ID" and
\* POST /api/events without a non-empty petIds array carries "At least one
\* pet must be selected", both checked before the schema.
C16_SchemaFailureRejected ==
    [][ SchemaFails(req') =>
          /\ db' = db
          /\ res' = Response(400,
                       IF req'.op = "PATCH /api/pets/:id" /\ IsNaN(req'.id)
                       THEN "Invalid pet ID"
                       ELSE IF req'.op = "POST /api/events" /\ NoPetSelected(req'.body)
                       THEN "At least one pet must be selected"
                       ELSE ZodIssues,
                       NoBody) ]_vars

\* a weight entry without its date was refused with the list of violations
\* while a pet is stored
C16_Witness ==
    /\ req.op = "POST /api/weight-entries" /\ ~ValidInsertWeightEntry(req.body)
    /\ res = Response(400, ZodIssues, NoBody)
    /\ db.pets # {}

\* C17: GET /api/pets/:id and PATCH /api/pets/:id with a valid body, for a
\* number that is the id of no pet, are answered 404 and the store is
\* unchanged.
C17_AbsentPetNotFound ==
    [][ ( /\ req'.op \in {"GET /api/pets/:id", "PATCH /api/pets/:id"}
          /\ ~IsNaN(req'.id) /\ req'.id \notin Ids(db.pets)
          /\ req'.op = "PATCH /api/pets/:id" => ValidPartialPet(req'.body) )
        => /\ res' = Response(404, "Pet not found", NoBody)
           /\ db' = db ]_vars

\* C18: DELETE /api/pets/:id and DELETE /api/events/:id with an id that is a
\* number are answered 204 whether or not the entity exists; when it does not
\* exist the store is unchanged, and deleting the same id again leaves the
\* store as the first delete left it.
C18_DeletesIdempotent ==
    [][ /\ (req'.op = "DELETE /api/pets/:id" /\ ~IsNaN(req'.id)) =>
              /\ res' = Response(204, "", NoBody)
              /\ req'.id \notin Ids(db.pets) => db' = db
              /\ deletePet(db', req'.id).ok /\ deletePet(db', req'.id).db = db'
        /\ (req'.op = "DELETE /api/events/:id" /\ ~IsNaN(req'.id)) =>
              /\ res' = Response(204, "", NoBody)
              /\ req'.id \notin Ids(db.events) => db' = db
              /\ deleteEvent(db', req'.id).ok /\ deleteEvent(db', req'.id).db = db'
      ]_vars

\* the delete of an event id that was never given out was answered 204 while
\* events are stored
C18_Witness ==
    /\ req.op = "DELETE /api/events/:id" /\ ~IsNaN(req.id)
    /\ req.id >= db.seq.events /\ db.events # {}
    /\ res.status = 204

\* C19: the pet stored and returned by an accepted POST /api/pets has every
\* submitted field with the submitted value; GET /api/pets/:id returns the
\* stored pet; and a stored pet changes or goes only in a PATCH or DELETE of
\* its id.
C19_PetRoundTrip ==
    [][ /\ (req'.op = "POST /api/pets" /\ res'.status = 201) =>
              /\ res'.body[1] \in db'.pets
              /\ \A f \in DOMAIN req'.body :
                    f \in DOMAIN res'.body[1] /\ res'.body[1][f] = req'.body[f]
        /\ (req'.op = "GET /api/pets/:id" /\ res'.status = 200) =>
              /\ Len(res'.body) = 1
              /\ res'.body[1] \in db.pets /\ res'.body[1].id = req'.id
        /\ \A p \in db.pets :
              p \in db'.pets \/ ( /\ req'.op \in {"PATCH /api/pets/:id", "DELETE /api/pets/:id"}
                                  /\ req'.id = p.id )
      ]_vars

C21_VaccinationMedicationRoutesServed ==
    [][ /\ req'.op = "GET /api/pets/:id/vaccinations" =>
              res'.status = 200 /\ res'.body \in getVaccinationsByPet(db, req'.id)
        /\ req'.op = "POST /api/pets/:id/vaccinations" =>
              db' = createVaccination(db, req'.body).db
        /\ req'.op = "PATCH /api/vaccinations/:id" =>
              db' = updateVaccination(db, req'.id, req'.body).db
        /\ req'.op = "DELETE /api/vaccinations/:id" =>
              db' = deleteVaccination(db, req'.id).db
        /\ req'.op = "GET /api/pets/:id/medications" =>
              res'.status = 200 /\ res'.body \in getMedicationsByPet(db, req'.id)
        /\ req'.op = "POST /api/pets/:id/medications" =>
              db' = createMedication(db, req'.body).db
        /\ req'.op = "PATCH /api/medications/:id" =>
              db' = updateMedication(db, req'.id, req'.body).db
        /\ req'.op = "DELETE /api/medications/:id" =>
              db' = deleteMedication(db, req'.id).db
      ]_vars

\* C22: a stored weight entry stays in the store with its id, pet, weight,
\* unit and recorded date unchanged in every step but the deletion of its
\* owning pet, and no two entries ever share an id.
C22_WeightEntriesAppendOnly ==
    [][ /\ \A w \in db.weightEntries :
              \/ w \in db'.weightEntries
              \/ /\ req'.op \in {"storage.deletePet", "DELETE /api/pets/:id"}
                 /\ req'.id = w.petId
                 /\ w.petId \notin Ids(db'.pets)
        /\ \A w \in db'.weightEntries \ db.weightEntries :
              /\ w.id \notin Ids(db.weightEntries)
              /\ req'.op \in {"storage.createWeightEntry", "POST /api/weight-entries"}
        /\ Cardinality(Ids(db'.weightEntries)) = Cardinality(db'.weightEntries)
      ]_vars

\* of two weight entries created, one went with its deleted pet and the other
\* is still stored
C22_Witness ==
    /\ req.op = "storage.deletePet"
    /\ db.seq.weightEntries = 3 /\ Cardinality(db.weightEntries) = 1
    /\ db.seq.pets = 3 /\ Cardinality(db.pets) = 1

\* C23: a deleteEvent keeps every vaccination and medication: one whose
\* source-event reference named the deleted event is stored afterwards with
\* that reference NULL and its other fields unchanged, every other one is
\* stored unchanged, and none is added; after every step a non-null
\* source-event reference names an existing event.
C23_DeleteEventDetachesRecords ==
    [][ /\ req'.op = "storage.deleteEvent" =>
              /\ \A r \in db.vaccinations :
                    IF r.sourceEventId = Some(req'.id)
                    THEN [r EXCEPT !.sourceEventId = NULL] \in db'.vaccinations
                    ELSE r \in db'.vaccinations
              /\ \A r \in db.medications :
                    IF r.sourceEventId = Some(req'.id)
                    THEN [r EXCEPT !.sourceEventId = NULL] \in db'.medications
                    ELSE r \in db'.medications
              /\ Cardinality(db'.vaccinations) = Cardinality(db.vaccinations)
              /\ Cardinality(db'.medications) = Cardinality(db.medications)
        /\ \A r \in db'.vaccinations \cup db'.medications :
              ~IsNull(r.sourceEventId) => Val(r.sourceEventId) \in Ids(db'.events)
      ]_vars

\* the only event was deleted; a vaccination and a medication are stored,
\* both without a source event
C23_Witness ==
    /\ req.op = "storage.deleteEvent" /\ req.id = 1
    /\ db.seq.events = 2 /\ db.events = {}
    /\ \E r \in db.vaccinations : IsNull(r.sourceEventId)
    /\ \E r \in db.medications : IsNull(r.sourceEventId)

\* the instants of the calendar day of an instant
SameDay(instant) == {SetHoursZero(instant) + k : k \in 0..(TicksPerDay - 1)}

\* C24: the status, label and day offset that getVaccinationStatus and
\* getStatus return for a record are those they return at every other time
\* of the same calendar day.
C24_StatusSameAllDay ==
    /\ view.page = "pet-detail" =>
          \A instant \in SameDay(view.at) :
              /\ getVaccinationStatus(view.vax, instant) = view.status
              /\ UpcomingVaccinationItems(view.vax, instant) = view.upcoming
    /\ view.page = "getStatus" =>
          \A instant \in SameDay(view.at) :
              getStatus(view.eventDate, instant) = view.result

\* C25: at every point of every interleaving of the event calls, every join
\* row names an event that exists; while a deleteEvent stands between its two
\* statements the event's join rows have been deleted by it and the event row by
\* no statement of it; and an event row goes only in the second statement of
\* a deleteEvent of its id, in which no join row of it is left behind.
C25_DeleteEventOrder ==
    [][ /\ \A l \in db'.petEvents : l.eventId \in Ids(db'.events)
        /\ \A c \in Callers :
              (calls'[c].pc = "deleteEvents" /\ calls[c].pc = "idle") =>
                  /\ \A l \in db'.petEvents : l.eventId # calls'[c].id
                  /\ db'.events = db.events
        /\ \A e \in db.events \ db'.events :
              \E c \in Callers :
                  /\ calls[c].op = "deleteEvent" /\ calls[c].pc = "deleteEvents"
                  /\ calls[c].id = e.id /\ calls'[c].pc = "returned"
                  /\ \A l \in db'.petEvents : l.eventId # e.id
      ]_vars

\* a deleteEvent stands between its statements, the event row still stored
\* and no join row of it left, while the createEvent of another event stands
\* between its own
C25_Witness ==
    \E c, o \in Callers :
        /\ calls[c].op = "deleteEvent" /\ calls[c].pc = "deleteEvents"
        /\ calls[c].id \in Ids(db.events) /\ db.seq.petEvents > 1
        /\ \A l \in db.petEvents : l.eventId # calls[c].id
        /\ calls[o].op = "createEvent" /\ calls[o].pc = "insertPetEvents"

\* C27: every event that getEvents or getEventsByPet returns carries at least
\* one linked pet, also when the call runs while the event is being created
\* or deleted (every event here is created with a non-empty list of stored
\* pets, and no pet is deleted).
C27_ReaderSeesEventWithPets ==
    \A c \in Callers :
        (calls[c].op \in {"getEvents", "getEventsByPet"} /\ calls[c].pc = "returned") =>
            \A i \in DOMAIN calls[c].result : Len(calls[c].result[i].pets) >= 1

\* the rows after are the rows before, but that the row of the given id has
\* the values of data in the fields data names
PatchedOnly(before, after, id, data) ==
    /\ Cardinality(after) = Cardinality(before)
    /\ \A r \in before :
          IF r.id = id
          THEN [f \in DOMAIN r |-> IF f \in DOMAIN data THEN data[f] ELSE r[f]] \in after
          ELSE r \in after

\* C26: an updatePet, updateVaccination or updateMedication that succeeds
\* changes, in the record of the given id, the fields its data names to the
\* values given and nothing else; the id, the other fields, the other
\* records of the table and all other tables stay; one that fails changes
\* nothing.
C26_PartialUpdateFrame ==
    [][ /\ req'.op = "storage.updatePet" =>
              IF res'.error = ""
              THEN /\ PatchedOnly(db.pets, db'.pets, req'.id, req'.body)
                   /\ [db' EXCEPT !.pets = db.pets] = db
              ELSE db' = db
        /\ req'.op = "storage.updateVaccination" =>
              IF res'.error = ""
              THEN /\ PatchedOnly(db.vaccinations, db'.vaccinations, req'.id, req'.body)
                   /\ [db' EXCEPT !.vaccinations = db.vaccinations] = db
              ELSE db' = db
        /\ req'.op = "storage.updateMedication" =>
              IF res'.error = ""
              THEN /\ PatchedOnly(db.medications, db'.medications, req'.id, req'.body)
                   /\ [db' EXCEPT !.medications = db.medications] = db
              ELSE db' = db
      ]_vars

\* of two stored pets, Luna was given the color Fawn and kept her name and
\* breed, and Buddy is as created
C26_Witness ==
    /\ req.op = "storage.updatePet" /\ DOMAIN req.body = {"color"} /\ res.error = ""
    /\ \E p \in db.pets : /\ p.id = req.id /\ p.name = "Luna" /\ p.breed = "Puggle"
                          /\ p.color = Some("Fawn")
    /\ \E p \in db.pets : p.id # req.id /\ p.name = "Buddy" /\ IsNull(p.color)

\* C28: after every step no two join rows have the same pet and event, and
\* the pets list of every event that GET /api/events returns holds each pet
\* at most once.
C28_NoDuplicateLinks ==
    /\ \A l, m \in db.petEvents :
          (l.petId = m.petId /\ l.eventId = m.eventId) => l = m
    /\ (req.op = "GET /api/events" /\ res.status = 200) =>
          \A i \in DOMAIN res.body : Distinct(res.body[i].pets)

\* C29: after every step each sample event is stored at most once, and a
\* run of seedDatabase on a store that holds events adds no event.
C29_SeedOnlyIntoEmptyStore ==
    [][ /\ \A e, f \in db'.events : e.title = f.title => e = f
        /\ (req'.op = "seedDatabase" /\ db.events # {}) => db'.events = db.events
      ]_vars

\* C30: GET /api/pets/:id/events returns the events that have a join row to
\* the pet and no other, each once, each with the pets of all its join rows,
\* later event dates first; so it returns the empty list for a pet with no
\* join row and for an id that is no pet's.
C30_EventsByPet ==
    (req.op = "GET /api/pets/:id/events" /\ res.status = 200) =>
        LET linked == {l.eventId : l \in {x \in db.petEvents : x.petId = req.id}}
            linksOf(e) == {l \in db.petEvents : l.eventId = e.id}
        IN  /\ SeqIds(res.body) = linked
            /\ Len(res.body) = Cardinality(linked)
            /\ \A i \in DOMAIN res.body :
                  LET e == res.body[i]
                  IN  /\ [id |-> e.id, title |-> e.title, category |-> e.category,
                          eventDate |-> e.eventDate, reminderDate |-> e.reminderDate]
                         \in db.events
                      /\ Len(e.pets) = Cardinality(linksOf(e))
                      /\ Range(e.pets) = {p \in db.pets : p.id \in {l.petId : l \in linksOf(e)}}
            /\ \A i, j \in DOMAIN res.body :
                  i < j => DateLeq(res.body[j].eventDate, res.body[i].eventDate)
            /\ (linked = {} \/ req.id \notin Ids(db.pets)) => res.body = <<>>

\* the events of a pet were listed: one event, carrying that pet and another
C30_Witness ==
    /\ req.op = "GET /api/pets/:id/events" /\ res.status = 200
    /\ Len(res.body) = 1 /\ Len(res.body[1].pets) = 2
    /\ \E k \in 1..2 : res.body[1].pets[k].id # req.id

====
